---- MODULE Spec2Model ----
(***************************************************************************)
(* Model of the sessions manager (package sessions, type Sessions): the    *)
(* orchestration of a request context, its session cookie and the          *)
(* Provider's registry of session Records.                                 *)
(*                                                                         *)
(* The manager's methods are translated from sessions.go.  The Provider,   *)
(* the Record (Session), the Database and the request layer (Context) are  *)
(* collaborators whose code is not part of sessions.go; they are modelled  *)
(* from their description in the specification.                            *)
(***************************************************************************)
EXTENDS Integers, Sequences, FiniteSets, TLC

(* ------------------------------ bounds --------------------------------- *)
MaxId == 2          \* session ids are 1..MaxId; 0 stands for the empty string ""
MaxReq == 2         \* request contexts that can be in flight at once
MaxVal == 1         \* session values are 1..MaxVal; 0 stands for "no value"
TimeNow == 1        \* the instant time.Now() returns, in seconds
MaxListeners == 1   \* destroy listeners that OnDestroy can register
MaxFanOut == 2      \* destroy listeners registered where their order is observed

Ids == 1..MaxId
Reqs == 1..MaxReq
Vals == 1..MaxVal
Keys == {"user", "cart"}
\* the key that handlers served one after the other use, and the key that
\* the handler of request r writes when several run at once
HandlerKeys == {"user"}
KeyOf(r) == IF r = 1 THEN "user" ELSE "cart"
Refs == 1..(MaxId + 2 * MaxReq)    \* addresses of Record instances (*Session)
NoRef == 0                      \* the nil *Session
Listeners == 1..MaxListeners
Durations == {-2, -1, 0, 1}     \* time.Duration values, in whole seconds

(* --------------------------- configuration ----------------------------- *)
Cookie == "irissessionid"       \* Config.Cookie, the cookie's name

VARIABLES
    config,            \* Sessions.config: [Expires, AllowReclaim]
    sessions,          \* provider.sessions: id -> ref of the registered Record
    heap,              \* the Record instances, by ref
    db,                \* the registered databases' entries: id -> key -> value
    destroyListeners,  \* provider.destroyListeners, in registration order
    ctx,               \* the request contexts
    pc,                \* position and locals of the Start calls that run step by step
    written,           \* per id, the values Set through its registered Record
    last               \* what the last operation did and returned

vars == <<config, sessions, heap, db, destroyListeners, ctx, pc, written, last>>

(* ------------------------------ Records -------------------------------- *)
EmptyStore == [k \in Keys |-> 0]

StoreLen(store) == Cardinality({k \in Keys : store[k] # 0})

\* the unused Record slot
NullRec ==
    [sid |-> 0, isNew |-> FALSE, store |-> EmptyStore,
     limited |-> FALSE, deadline |-> 0, removed |-> FALSE]

\* Database.Len(sid): the number of entries the databases hold for sid
DbLen(d, sid) == StoreLen(d[sid])

\* the deadline that `expires` sets at time t: none when expires = 0 (unlimited
\* life), t + expires when positive, and t itself when negative (the Record
\* expires on the next check)
Deadline(expires, t) ==
    IF expires = 0 THEN 0 ELSE IF expires < 0 THEN t ELSE t + expires

\* a Record created at time t
newSession(d, sid, expires, t) ==
    [sid |-> sid, isNew |-> (DbLen(d, sid) = 0), store |-> EmptyStore,
     limited |-> (expires # 0), deadline |-> Deadline(expires, t),
     removed |-> FALSE]

(* ------------------------------ Provider ------------------------------- *)
\* The Provider's state is passed as P = [sessions, heap, db, fired, firedAt,
\* unset], fired being the destroy-listener invocations <<listener, sid>> made
\* so far by the running operation, firedAt what each of them found when it
\* was invoked (entry: the registry still holds sid; cookie: the client has
\* been told to remove the cookie of sid) and unset the ids whose cookie the
\* running operation has removed client-side before it called the Provider.

\* Provider.Init: creates a Record for sid at address ref and registers it
ProviderInit(P, ref, sid, expires, t) ==
    [P EXCEPT !.heap[ref] = newSession(P.db, sid, expires, t),
              !.sessions[sid] = ref]

\* the registry lookup of Provider.Read
ProviderLookup(P, sid) == P.sessions[sid]

\* Provider.Read on a hit: the Record is no longer new
ProviderReadHit(P, sid) ==
    [P EXCEPT !.heap[P.sessions[sid]].isNew = FALSE]

\* Provider.Read as one call: [P |-> provider after, ret |-> the Record]
ProviderRead(P, ref, sid, expires, t) ==
    IF ProviderLookup(P, sid) # NoRef
    THEN [P |-> ProviderReadHit(P, sid), ret |-> ProviderLookup(P, sid)]
    ELSE [P |-> ProviderInit(P, ref, sid, expires, t), ret |-> ref]

\* the listeners' invocations for sid, the listener registered last first
fireDestroyReversed(sid) ==
    [n \in 1..Len(destroyListeners) |->
        <<destroyListeners[Len(destroyListeners) + 1 - n], sid>>]

\* the listeners' invocations for sid, in registration order
fireDestroy(sid) ==
    [i \in 1..Len(destroyListeners) |-> <<destroyListeners[i], sid>>]

\* removal of the registered Record of sid: registry entry, database entry,
\* then the listeners
deleteSession(P, sid) ==
    LET P1 == [P EXCEPT !.heap[P.sessions[sid]] =
                              [NullRec EXCEPT !.sid = sid, !.removed = TRUE],
                        !.sessions[sid] = NoRef,
                        !.db[sid] = EmptyStore]
    IN  [P1 EXCEPT !.fired = @ \o fireDestroy(sid),
                   !.firedAt = @ \o [n \in 1..Len(destroyListeners) |->
                                       [sid |-> sid,
                                        entry |-> P1.sessions[sid] # NoRef,
                                        cookie |-> sid \in P1.unset]]]

\* Provider.Destroy: a no-op for an id that is not registered
ProviderDestroy(P, sid) ==
    IF P.sessions[sid] # NoRef THEN deleteSession(P, sid) ELSE P

\* Provider.DestroyAll, visiting the registry in the order `order`
RECURSIVE ProviderDestroyAll(_, _)
ProviderDestroyAll(P, order) ==
    IF order = <<>> THEN P
    ELSE ProviderDestroyAll(ProviderDestroy(P, Head(order)), Tail(order))

\* Provider.UpdateExpiration: [P |-> provider after, err |-> the error];
\* dbErr is the answer of the database asked to persist the new deadline
\* ("nil", or "ErrNotImplemented" when it cannot)
ProviderUpdateExpiration(P, sid, expires, t, dbErr) ==
    IF P.sessions[sid] = NoRef /\ DbLen(P.db, sid) = 0
    THEN [P |-> P, err |-> "ErrNotFound"]
    ELSE [P |-> IF P.sessions[sid] = NoRef THEN P
                ELSE [P EXCEPT
                        !.heap[P.sessions[sid]].limited = (expires # 0),
                        !.heap[P.sessions[sid]].deadline = Deadline(expires, t)],
          err |-> dbErr]

(* --------------------------- request layer ----------------------------- *)
\* the far-future instant of a cookie with unlimited life, and the past
\* instant of a cookie that is being deleted
CookieExpireUnlimited == 100
CookieExpireDelete == -1

\* a context that serves no request.  cookie is the request's session
\* cookie (0: none), reclaim whether the reclaim option was added to the
\* request, value the *Session stored in ctx.Values(), held the *Session the
\* handler got from Start, sent the cookies that the running operation has
\* sent to the response (handed back as the operation's writes).
IdleCtx ==
    [active |-> FALSE, cookie |-> 0, reclaim |-> FALSE,
     value |-> NoRef, held |-> NoRef, sent |-> <<>>]

\* ctx.GetCookie(name): the value of the request's cookie, 0 when absent
GetCookie(c) == c.cookie

\* ctx.UpsertCookie: sets the response's Set-Cookie of that name; with the
\* reclaim option the cookie is added to the request as well
UpsertCookie(c, cookie) ==
    [c EXCEPT !.sent = Append(@, cookie),
              !.cookie = IF c.reclaim THEN cookie.value ELSE @]

\* the cookie ctx.RemoveCookie answers with: empty and expired
removalCookie ==
    [name |-> Cookie, value |-> 0, path |-> "/", httpOnly |-> TRUE,
     expires |-> CookieExpireDelete, maxAge |-> -1]

\* ctx.RemoveCookie: answers with the removal cookie and drops the cookie
\* from the request
RemoveCookie(c) == [c EXCEPT !.sent = Append(@, removalCookie), !.cookie = 0]

(* ------------------------------ Sessions ------------------------------- *)
\* sessionCookie without its `if expires >= 0` block: no attribute is set
sessionCookieNoExpiry(sid, expires, t) ==
    [name |-> Cookie, value |-> sid, path |-> "/", httpOnly |-> TRUE,
     expires |-> 0, maxAge |-> 0]

\* sessionCookie taking a zero duration like a positive one: the cookie
\* expires at the instant it is written
sessionCookieZeroNow(sid, expires, t) ==
    LET base == [name |-> Cookie, value |-> sid, path |-> "/",
                 httpOnly |-> TRUE, expires |-> 0, maxAge |-> 0]
    IN  IF expires >= 0
        THEN [base EXCEPT !.expires = t + expires, !.maxAge = expires]
        ELSE base

\* sessionCookie setting Expires and MaxAge whatever the sign of the duration
sessionCookieAlways(sid, expires, t) ==
    LET at == IF expires = 0 THEN CookieExpireUnlimited ELSE t + expires
    IN  [name |-> Cookie, value |-> sid, path |-> "/", httpOnly |-> TRUE,
         expires |-> at, maxAge |-> at - t]

\* the cookie that updateCookie builds at time t, time.Until() reading the
\* clock at t as well; expires = 0 in the result stands for the zero
\* time.Time (no Expires attribute), maxAge = 0 for no Max-Age
sessionCookie(sid, expires, t) ==
    LET at == IF expires = 0 THEN CookieExpireUnlimited ELSE t + expires
        base == [name |-> Cookie, value |-> sid, path |-> "/",
                 httpOnly |-> TRUE, expires |-> 0, maxAge |-> 0]
    IN  IF expires >= 0
        THEN [base EXCEPT !.expires = at, !.maxAge = at - t]
        ELSE base

\* updateCookie without its ctx.UpsertCookie call
updateCookieSkip(c, sid, expires, t) == c

\* Sessions.updateCookie
updateCookie(c, sid, expires, t) ==
    UpsertCookie(c, sessionCookie(sid, expires, t))

\* the comparison of Start inverted: `s.provider.db.Len(sid) != 0`
StartIsNewInverted(d, sid) == DbLen(d, sid) # 0

\* `s.provider.db.Len(sid) == 0` of Start
StartIsNew(d, sid) == DbLen(d, sid) = 0

\* Start, the request carries no cookie: sid is the generated id
StartNew(P, c, sid, ref, t) ==
    LET P1 == ProviderInit(P, ref, sid, config.Expires, t)
        P2 == [P1 EXCEPT !.heap[ref].isNew = StartIsNew(P1.db, sid)]
    IN  [P |-> P2, c |-> updateCookie(c, sid, config.Expires, t),
         ret |-> ref, sid |-> sid]

\* Start calling Provider.Init where it has to call Provider.Read
StartReadFresh(P, c, ref, t) ==
    [P |-> ProviderInit(P, ref, GetCookie(c), config.Expires, t), c |-> c,
     ret |-> ref, sid |-> GetCookie(c)]

\* Start sending the cookie again to a request that carries it
StartReadRewrite(P, c, ref, t) ==
    LET rd == ProviderRead(P, ref, GetCookie(c), config.Expires, t)
    IN  [P |-> rd.P, c |-> updateCookie(c, GetCookie(c), config.Expires, t),
         ret |-> rd.ret, sid |-> GetCookie(c)]

\* Start, the request carries the cookie
StartRead(P, c, ref, t) ==
    LET rd == ProviderRead(P, ref, GetCookie(c), config.Expires, t)
    IN  [P |-> rd.P, c |-> c, ret |-> rd.ret, sid |-> GetCookie(c)]

\* Sessions.Start
StartCall(P, c, sid, ref, t) ==
    IF GetCookie(c) = 0
    THEN StartNew(P, c, sid, ref, t)
    ELSE StartRead(P, c, ref, t)

\* the request options Handler adds: CookieAllowReclaim when configured
HandlerOptions(c) == [c EXCEPT !.reclaim = config.AllowReclaim]

\* ctx.Values().Set(sessionContextKey, session)
HandlerAttach(c, session) == [c EXCEPT !.value = session]

\* Get: the *Session of the request's values, or nil
Get(c) == c.value

\* Destroy without its s.provider.Destroy call
DestroyCallCookieOnly(P, c) ==
    IF GetCookie(c) = 0
    THEN [P |-> P, c |-> c]
    ELSE [P |-> P, c |-> RemoveCookie([c EXCEPT !.value = NoRef])]

\* Destroy removing the session from ctx.Values() before it looks for the
\* cookie
DestroyCallDetachFirst(P, c) ==
    IF GetCookie(c) = 0
    THEN [P |-> P, c |-> [c EXCEPT !.value = NoRef]]
    ELSE [P |-> ProviderDestroy(P, GetCookie(c)),
          c |-> RemoveCookie([c EXCEPT !.value = NoRef])]

\* Destroy handing every id to Provider.Destroy
DestroyCallAll(P, c) ==
    IF GetCookie(c) = 0
    THEN [P |-> P, c |-> c]
    ELSE [P |-> ProviderDestroyAll(P, [i \in 1..MaxId |-> i]),
          c |-> RemoveCookie([c EXCEPT !.value = NoRef])]

\* Destroy calling s.provider.Destroy before it removes the cookie
DestroyCallProviderFirst(P, c) ==
    IF GetCookie(c) = 0
    THEN [P |-> P, c |-> c]
    ELSE [P |-> ProviderDestroy(P, GetCookie(c)),
          c |-> RemoveCookie([c EXCEPT !.value = NoRef])]

\* Sessions.Destroy: [P, c]
DestroyCall(P, c) ==
    IF GetCookie(c) = 0
    THEN [P |-> P, c |-> c]
    ELSE [P |-> ProviderDestroy([P EXCEPT !.unset = @ \cup {GetCookie(c)}],
                                GetCookie(c)),
          c |-> RemoveCookie([c EXCEPT !.value = NoRef])]

\* the condition of UpdateExpiration without `|| expires == -1`
UpdateWritesOnSuccess(err, expires) == err = "nil"

\* whether UpdateExpiration rewrites the cookie
UpdateWrites(err, expires) == err = "nil" \/ expires = -1

\* UpdateExpiration answering nil where it has to answer ErrNotFound to a
\* request without cookie
UpdateExpirationCallLenient(P, c, expires, t, dbErr) ==
    IF GetCookie(c) = 0
    THEN [P |-> P, c |-> c, err |-> "nil", calls |-> 0]
    ELSE LET up == ProviderUpdateExpiration(P, GetCookie(c), expires, t, dbErr)
         IN  [P |-> up.P,
              c |-> IF UpdateWrites(up.err, expires)
                    THEN updateCookie(c, GetCookie(c), expires, t) ELSE c,
              err |-> up.err, calls |-> 1]

\* Sessions.UpdateExpiration: [P, c, err, calls], calls counting the calls of
\* Provider.UpdateExpiration
UpdateExpirationCall(P, c, expires, t, dbErr) ==
    IF GetCookie(c) = 0
    THEN [P |-> P, c |-> c, err |-> "ErrNotFound", calls |-> 0]
    ELSE LET up == ProviderUpdateExpiration(P, GetCookie(c), expires, t, dbErr)
         IN  [P |-> up.P,
              c |-> IF UpdateWrites(up.err, expires)
                    THEN updateCookie(c, GetCookie(c), expires, t) ELSE c,
              err |-> up.err, calls |-> 1]

(* ------------------------------ the state ------------------------------ *)
\* a request that is not inside a Start call
IdlePc == [at |-> "idle", sid |-> 0, sess |-> NoRef]

\* the record of the last operation made for the request being served (none
\* once a request arrives or is answered): its name, the session id it was about, the
\* duration it was called with, the *Session and the error it returned, the
\* cookies it sent, the listener invocations it made and what each of them
\* found (see deleteSession), the ids whose Record
\* it removed, the value a Get returned and the number of calls of
\* Provider.UpdateExpiration it made
NoLast ==
    [op |-> "none", sid |-> 0, arg |-> 0, ret |-> NoRef, err |-> "nil",
     writes |-> <<>>, fired |-> <<>>, firedAt |-> <<>>, removed |-> {},
     val |-> 0, calls |-> 0]

\* the Provider as the operations receive it
Prov ==
    [sessions |-> sessions, heap |-> heap, db |-> db, fired |-> <<>>,
     firedAt |-> <<>>, unset |-> {}]

\* the Records that are reachable: from the registry, a request or a Start
InUse(ss, cx, p) ==
    ({ss[i] : i \in Ids} \cup {cx[r].value : r \in Reqs}
        \cup {cx[r].held : r \in Reqs} \cup {p[r].sess : r \in Reqs}) \ {NoRef}

\* the address of the next allocated Record
FreeRef == Cardinality(InUse(sessions, ctx, pc)) + 1

\* the ids the SessionIDGenerator can return: ids that name no session
Generated ==
    {i \in Ids : sessions[i] = NoRef /\ \A r \in Reqs : pc[r].sid # i}

\* the ids whose Record the operation that led from registry ss to P removed
Removed(ss, P) == {i \in Ids : ss[i] # NoRef /\ P.sessions[i] = NoRef}

\* the values written through registered Records, after the registry became P
Forget(w, P) ==
    [i \in Ids |-> IF P.sessions[i] = NoRef THEN EmptyStore ELSE w[i]]

\* Addresses carry no meaning, so every state names the reachable Records in
\* the order in which the registry, then the requests, refer to them, and
\* unreachable Records are collected.
Scan(ss, cx, p) ==
    [j \in 1..(MaxId + 3 * MaxReq) |->
        IF j <= MaxId THEN ss[j]
        ELSE LET q == j - MaxId - 1
                 r == (q \div 3) + 1
             IN  CASE q % 3 = 0 -> cx[r].value
                   [] q % 3 = 1 -> cx[r].held
                   [] OTHER     -> p[r].sess]

RECURSIVE Distinct(_, _)
Distinct(sc, acc) ==
    IF sc = <<>> THEN acc
    ELSE IF Head(sc) = NoRef \/ \E j \in DOMAIN acc : acc[j] = Head(sc)
         THEN Distinct(Tail(sc), acc)
         ELSE Distinct(Tail(sc), Append(acc, Head(sc)))

Renumber(order, x) ==
    IF \E j \in DOMAIN order : order[j] = x
    THEN CHOOSE j \in DOMAIN order : order[j] = x
    ELSE NoRef

\* the state after an operation that left the Provider as P0, the contexts
\* as cx0, the Start calls as p0 and the record l0
Commit(P0, cx0, p0, l0) ==
    \E P \in {P0}, cx \in {cx0}, p \in {p0}, l \in {l0} :
    \E order \in {Distinct(Scan(P.sessions, cx, p), <<>>)} :
        /\ sessions' = [i \in Ids |-> Renumber(order, P.sessions[i])]
        /\ db' = P.db
        /\ ctx' = [r \in Reqs |->
                     [cx[r] EXCEPT !.value = Renumber(order, @),
                                   !.held = Renumber(order, @),
                                   !.sent = <<>>]]
        /\ pc' = [r \in Reqs |-> [p[r] EXCEPT !.sess = Renumber(order, @)]]
        /\ heap' = [y \in Refs |->
                      IF y <= Len(order) THEN P.heap[order[y]] ELSE NullRec]
        /\ written' = Forget(written, P)
        /\ last' = [l EXCEPT !.ret = Renumber(order, @)]

\* the orders in which a set of ids can be visited
Orders(S) ==
    {o \in [1..Cardinality(S) -> S] : \A i, j \in DOMAIN o : i # j => o[i] # o[j]}

\* the database contents at start-up: entries persisted by an earlier run
Persisted ==
    {d \in [Ids -> [Keys -> 0..MaxVal]] :
        /\ \A i \in Ids : i > 1 => d[i] = EmptyStore
        /\ \A i \in Ids : \A k \in Keys \ HandlerKeys : d[i][k] = 0}

Init ==
    /\ config \in [Expires : {0, 1}, AllowReclaim : BOOLEAN]
    /\ sessions = [i \in Ids |-> NoRef]
    /\ heap = [y \in Refs |-> NullRec]
    /\ db \in Persisted
    /\ destroyListeners = <<>>
    /\ ctx = [r \in Reqs |-> IdleCtx]
    /\ pc = [r \in Reqs |-> IdlePc]
    /\ written = [i \in Ids |-> EmptyStore]
    /\ last = NoLast

(* ------------------------------- requests ------------------------------ *)
\* a request arrives on context r, carrying session cookie c (0: none)
NewRequest(r, c) ==
    /\ ~ctx[r].active
    /\ ctx' = [ctx EXCEPT ![r] = [IdleCtx EXCEPT !.active = TRUE, !.cookie = c]]
    /\ last' = NoLast
    /\ UNCHANGED <<config, sessions, heap, db, destroyListeners, pc, written>>

\* the request on context r is answered; its references are dropped
EndRequest(r) ==
    /\ ctx[r].active
    /\ pc[r].at = "idle"
    /\ Commit(Prov, [ctx EXCEPT ![r] = IdleCtx], pc, NoLast)
    /\ UNCHANGED <<config, destroyListeners>>

(* ------------------------ the manager's operations --------------------- *)
\* Sessions.Start called by the handler of request r
Start(r) ==
    /\ ctx[r].active
    /\ pc[r].at = "idle"
    /\ ctx[r].value = NoRef
    /\ \E sid \in (IF GetCookie(ctx[r]) = 0 THEN Generated ELSE {0}) :
       \E st \in {StartCall(Prov, ctx[r], sid, FreeRef, TimeNow)} :
          Commit(st.P, [ctx EXCEPT ![r] = [st.c EXCEPT !.held = st.ret]], pc,
                 [NoLast EXCEPT !.op = "Start", !.sid = st.sid, !.ret = st.ret,
                                !.writes = st.c.sent])
    /\ UNCHANGED <<config, destroyListeners>>

\* Sessions.Handler: the middleware starts the session of request r and
\* stores it in the request's values
Handler(r) ==
    /\ ctx[r].active
    /\ pc[r].at = "idle"
    /\ ctx[r].value = NoRef
    /\ ctx[r].held = NoRef
    /\ \E sid \in (IF GetCookie(ctx[r]) = 0 THEN Generated ELSE {0}) :
       \E st \in {StartCall(Prov, HandlerOptions(ctx[r]), sid, FreeRef, TimeNow)} :
          Commit(st.P,
                 [ctx EXCEPT ![r] = [HandlerAttach(st.c, st.ret) EXCEPT !.held = st.ret]],
                 pc,
                 [NoLast EXCEPT !.op = "Handler", !.sid = st.sid, !.ret = st.ret,
                                !.writes = st.c.sent])
    /\ UNCHANGED <<config, destroyListeners>>

\* Get(ctx) called by the handler of request r
GetSession(r) ==
    /\ ctx[r].active
    /\ pc[r].at = "idle"
    /\ last' = [NoLast EXCEPT !.op = "Get", !.ret = Get(ctx[r])]
    /\ UNCHANGED <<config, sessions, heap, db, destroyListeners, ctx, pc, written>>

\* Sessions.Destroy called by the handler of request r
Destroy(r) ==
    /\ ctx[r].active
    /\ pc[r].at = "idle"
    /\ \E d \in {DestroyCall(Prov, ctx[r])} :
          Commit(d.P, [ctx EXCEPT ![r] = d.c], pc,
                 [NoLast EXCEPT !.op = "Destroy", !.sid = GetCookie(ctx[r]),
                                !.writes = d.c.sent, !.fired = d.P.fired,
                                !.firedAt = d.P.firedAt,
                                !.removed = Removed(sessions, d.P)])
    /\ UNCHANGED <<config, destroyListeners>>

\* DestroyByID forwarding to Provider.DestroyAll
DestroyByIDAll(sid) ==
    /\ \E order \in Orders({i \in Ids : sessions[i] # NoRef}) :
       \E P \in {ProviderDestroyAll(Prov, order)} :
          Commit(P, ctx, pc,
                 [NoLast EXCEPT !.op = "DestroyByID", !.sid = sid,
                                !.fired = P.fired, !.firedAt = P.firedAt,
                                !.removed = Removed(sessions, P)])
    /\ UNCHANGED <<config, destroyListeners>>

\* Sessions.DestroyByID
DestroyByID(sid) ==
    /\ \E P \in {ProviderDestroy(Prov, sid)} :
          Commit(P, ctx, pc,
                 [NoLast EXCEPT !.op = "DestroyByID", !.sid = sid,
                                !.fired = P.fired, !.firedAt = P.firedAt,
                                !.removed = Removed(sessions, P)])
    /\ UNCHANGED <<config, destroyListeners>>

\* DestroyAll stopping after the first Record it removes
DestroyAllFirst ==
    /\ \E order \in Orders({i \in Ids : sessions[i] # NoRef}) :
       \E P \in {ProviderDestroyAll(Prov, IF order = <<>> THEN order ELSE <<order[1]>>)} :
          Commit(P, ctx, pc,
                 [NoLast EXCEPT !.op = "DestroyAll", !.fired = P.fired, !.firedAt = P.firedAt,
                                !.removed = Removed(sessions, P)])
    /\ UNCHANGED <<config, destroyListeners>>

\* Sessions.DestroyAll
DestroyAll ==
    /\ \E order \in Orders({i \in Ids : sessions[i] # NoRef}) :
       \E P \in {ProviderDestroyAll(Prov, order)} :
          Commit(P, ctx, pc,
                 [NoLast EXCEPT !.op = "DestroyAll", !.fired = P.fired, !.firedAt = P.firedAt,
                                !.removed = Removed(sessions, P)])
    /\ UNCHANGED <<config, destroyListeners>>

\* the answers the database can give when asked to persist a new deadline
DbAnswers(sid) ==
    IF sid # 0 /\ (sessions[sid] # NoRef \/ DbLen(db, sid) # 0)
    THEN {"nil", "ErrNotImplemented"}
    ELSE {"nil"}

\* Sessions.UpdateExpiration called by the handler of request r
UpdateExpiration(r, expires) ==
    /\ ctx[r].active
    /\ pc[r].at = "idle"
    /\ \E dbErr \in DbAnswers(GetCookie(ctx[r])) :
       \E u \in {UpdateExpirationCall(Prov, ctx[r], expires, TimeNow, dbErr)} :
          Commit(u.P, [ctx EXCEPT ![r] = u.c], pc,
                 [NoLast EXCEPT !.op = "UpdateExpiration", !.sid = GetCookie(ctx[r]),
                                !.arg = expires, !.err = u.err, !.writes = u.c.sent,
                                !.calls = u.calls])
    /\ UNCHANGED <<config, destroyListeners>>

\* Sessions.ShiftExpiration
ShiftExpiration(r) == UpdateExpiration(r, config.Expires)

\* Sessions.OnDestroy: registers listener ln
OnDestroy(ln) ==
    /\ Len(destroyListeners) < MaxListeners
    /\ \A i \in DOMAIN destroyListeners : destroyListeners[i] # ln
    /\ destroyListeners' = Append(destroyListeners, ln)
    /\ last' = NoLast
    /\ UNCHANGED <<config, sessions, heap, db, ctx, pc, written>>

\* Sessions.OnDestroy, up to MaxFanOut listeners
OnDestroyFan(ln) ==
    /\ Len(destroyListeners) < MaxFanOut
    /\ \A i \in DOMAIN destroyListeners : destroyListeners[i] # ln
    /\ destroyListeners' = Append(destroyListeners, ln)
    /\ last' = NoLast
    /\ UNCHANGED <<config, sessions, heap, db, ctx, pc, written>>

(* ------------------------- Records and the sweep ----------------------- *)
\* the value of key k in Record x: the in-memory copy, else the database's
SessionValue(h, d, x, k) ==
    IF h[x].store[k] # 0 THEN h[x].store[k] ELSE d[h[x].sid][k]

\* Session.Set(k, v) on the Record that request r got from Start
SessionSet(r, k, v) ==
    /\ ctx[r].active
    /\ pc[r].at = "idle"
    /\ ctx[r].held # NoRef
    /\ ~heap[ctx[r].held].removed
    /\ LET x == ctx[r].held
           sid == heap[x].sid
       IN  /\ heap' = [heap EXCEPT ![x].store[k] = v]
           /\ written' = IF sessions[sid] = x
                         THEN [written EXCEPT ![sid][k] = v] ELSE written
    /\ last' = NoLast
    /\ UNCHANGED <<config, sessions, db, destroyListeners, ctx, pc>>

\* Session.Get(k) on the Record that request r got from Start; a value found
\* in the database only is copied into the Record
SessionGet(r, k) ==
    /\ ctx[r].active
    /\ pc[r].at = "idle"
    /\ ctx[r].held # NoRef
    /\ ~heap[ctx[r].held].removed
    /\ LET x == ctx[r].held
           v == SessionValue(heap, db, x, k)
       IN  /\ heap' = [heap EXCEPT ![x].store[k] = v]
           /\ last' = [NoLast EXCEPT !.op = "SessionGet", !.sid = heap[x].sid,
                                     !.ret = x, !.val = v]
    /\ UNCHANGED <<config, sessions, db, destroyListeners, ctx, pc, written>>

\* the sweep removing the Record without telling the listeners
ExpireSilent(sid) ==
    /\ sessions[sid] # NoRef
    /\ heap[sessions[sid]].limited
    /\ heap[sessions[sid]].deadline <= TimeNow
    /\ \E P \in {[deleteSession(Prov, sid) EXCEPT !.fired = <<>>, !.firedAt = <<>>]} :
          Commit(P, ctx, pc,
                 [NoLast EXCEPT !.op = "Expire", !.sid = sid,
                                !.removed = Removed(sessions, P)])
    /\ UNCHANGED <<config, destroyListeners>>

\* the expiration sweep removes the Record of sid, whose deadline has passed
Expire(sid) ==
    /\ sessions[sid] # NoRef
    /\ heap[sessions[sid]].limited
    /\ heap[sessions[sid]].deadline <= TimeNow
    /\ \E P \in {deleteSession(Prov, sid)} :
          Commit(P, ctx, pc,
                 [NoLast EXCEPT !.op = "Expire", !.sid = sid, !.fired = P.fired,
                                !.firedAt = P.firedAt,
                                !.removed = Removed(sessions, P)])
    /\ UNCHANGED <<config, destroyListeners>>

(* ------------------- Start, one shared access at a time ---------------- *)
\* Start reads the request's cookie: without one it generates an id; with
\* one it looks the id up in the registry and returns the Record found
StartBegin(r) ==
    /\ ctx[r].active
    /\ pc[r].at = "idle"
    /\ ctx[r].held = NoRef
    /\ IF GetCookie(ctx[r]) = 0
       THEN /\ \E sid \in Generated :
                 pc' = [pc EXCEPT ![r] = [at |-> "init", sid |-> sid, sess |-> NoRef]]
            /\ UNCHANGED <<sessions, heap, db, ctx, written, last>>
       ELSE IF ProviderLookup(Prov, GetCookie(ctx[r])) = NoRef
       THEN /\ pc' = [pc EXCEPT ![r] = [at |-> "readinit", sid |-> GetCookie(ctx[r]),
                                        sess |-> NoRef]]
            /\ UNCHANGED <<sessions, heap, db, ctx, written, last>>
       ELSE LET sid == GetCookie(ctx[r])
                ret == ProviderLookup(Prov, sid)
            IN  Commit(ProviderReadHit(Prov, sid),
                       [ctx EXCEPT ![r].held = ret], pc,
                       [NoLast EXCEPT !.op = "Start", !.sid = sid, !.ret = ret])
    /\ UNCHANGED <<config, destroyListeners>>

\* s.provider.Init(s, sid, s.config.Expires)
StartInit(r) ==
    /\ pc[r].at = "init"
    /\ Commit(ProviderInit(Prov, FreeRef, pc[r].sid, config.Expires, TimeNow), ctx,
              [pc EXCEPT ![r] = [@ EXCEPT !.at = "isnew", !.sess = FreeRef]], last)
    /\ UNCHANGED <<config, destroyListeners>>

\* sess.isNew = s.provider.db.Len(sid) == 0
StartSetIsNew(r) ==
    /\ pc[r].at = "isnew"
    /\ heap' = IF heap[pc[r].sess].removed THEN heap
               ELSE [heap EXCEPT ![pc[r].sess].isNew = StartIsNew(db, pc[r].sid)]
    /\ pc' = [pc EXCEPT ![r].at = "cookie"]
    /\ UNCHANGED <<config, sessions, db, destroyListeners, ctx, written, last>>

\* s.updateCookie(ctx, sid, s.config.Expires, cookieOptions...); return sess
StartCookie(r) ==
    /\ pc[r].at = "cookie"
    /\ \E c \in {updateCookie(ctx[r], pc[r].sid, config.Expires, TimeNow)} :
          Commit(Prov, [ctx EXCEPT ![r] = [c EXCEPT !.held = pc[r].sess]],
                 [pc EXCEPT ![r] = IdlePc],
                 [NoLast EXCEPT !.op = "Start", !.sid = pc[r].sid, !.ret = pc[r].sess,
                                !.writes = c.sent])
    /\ UNCHANGED <<config, destroyListeners>>

\* Provider.Read found no Record and creates one as Init does
StartReadInit(r) ==
    /\ pc[r].at = "readinit"
    /\ Commit(ProviderInit(Prov, FreeRef, pc[r].sid, config.Expires, TimeNow),
              [ctx EXCEPT ![r].held = FreeRef],
              [pc EXCEPT ![r] = IdlePc],
              [NoLast EXCEPT !.op = "Start", !.sid = pc[r].sid, !.ret = FreeRef])
    /\ UNCHANGED <<config, destroyListeners>>

(* --------------------------- specifications ---------------------------- *)
\* Requests served one after the other, every operation of the manager
\* running to its end before the next one starts.
Next ==
    \/ \E c \in 0..MaxId : NewRequest(1, c)
    \/ EndRequest(1)
    \/ Start(1)
    \/ Handler(1)
    \/ GetSession(1)
    \/ Destroy(1)
    \/ \E sid \in Ids : DestroyByID(sid)
    \/ DestroyAll
    \/ \E expires \in Durations : UpdateExpiration(1, expires)
    \/ ShiftExpiration(1)
    \/ \E ln \in Listeners : OnDestroy(ln)
    \/ \E k \in HandlerKeys, v \in Vals : SessionSet(1, k, v)
    \/ \E k \in HandlerKeys : SessionGet(1, k)
    \/ \E sid \in Ids : Expire(sid)

Spec == Init /\ [][Next]_vars

\* Requests served concurrently: Start runs one shared access at a time and
\* interleaves with the Starts and the destroy operations of other requests.
NextConc ==
    \/ \E r \in Reqs, c \in 0..MaxId : NewRequest(r, c)
    \/ \E r \in Reqs : EndRequest(r)
    \/ \E r \in Reqs : StartBegin(r)
    \/ \E r \in Reqs : StartInit(r)
    \/ \E r \in Reqs : StartSetIsNew(r)
    \/ \E r \in Reqs : StartCookie(r)
    \/ \E r \in Reqs : StartReadInit(r)
    \/ \E r \in Reqs : Destroy(r)
    \/ \E sid \in Ids : DestroyByID(sid)
    \/ DestroyAll
    \/ \E ln \in Listeners : OnDestroy(ln)

SpecConc == Init /\ [][NextConc]_vars

\* Requests served concurrently under a configuration whose sessions are due
\* as soon as they are created, with the expiration sweep running on its own
\* schedule and up to MaxFanOut destroy listeners.
InitSweep ==
    /\ config = [Expires |-> -1, AllowReclaim |-> FALSE]
    /\ sessions = [i \in Ids |-> NoRef]
    /\ heap = [y \in Refs |-> NullRec]
    /\ db = [i \in Ids |-> EmptyStore]
    /\ destroyListeners = <<>>
    /\ ctx = [r \in Reqs |-> IdleCtx]
    /\ pc = [r \in Reqs |-> IdlePc]
    /\ written = [i \in Ids |-> EmptyStore]
    /\ last = NoLast

NextSweep ==
    \/ \E r \in Reqs, c \in 0..MaxId : NewRequest(r, c)
    \/ \E r \in Reqs : EndRequest(r)
    \/ \E r \in Reqs : StartBegin(r)
    \/ \E r \in Reqs : StartInit(r)
    \/ \E r \in Reqs : StartSetIsNew(r)
    \/ \E r \in Reqs : StartCookie(r)
    \/ \E r \in Reqs : StartReadInit(r)
    \/ \E r \in Reqs : Destroy(r)
    \/ \E sid \in Ids : DestroyByID(sid)
    \/ DestroyAll
    \/ \E ln \in 1..MaxFanOut : OnDestroyFan(ln)
    \/ \E sid \in Ids : Expire(sid)

SpecSweep == InitSweep /\ [][NextSweep]_vars

\* Requests served concurrently whose handlers start the session and write
\* to it, each handler its own key.
InitSet ==
    /\ config = [Expires |-> 0, AllowReclaim |-> FALSE]
    /\ sessions = [i \in Ids |-> NoRef]
    /\ heap = [y \in Refs |-> NullRec]
    /\ db = [i \in Ids |-> EmptyStore]
    /\ destroyListeners = <<>>
    /\ ctx = [r \in Reqs |-> IdleCtx]
    /\ pc = [r \in Reqs |-> IdlePc]
    /\ written = [i \in Ids |-> EmptyStore]
    /\ last = NoLast

NextSet ==
    \/ \E r \in Reqs, c \in 0..MaxId : NewRequest(r, c)
    \/ \E r \in Reqs : EndRequest(r)
    \/ \E r \in Reqs : StartBegin(r)
    \/ \E r \in Reqs : StartInit(r)
    \/ \E r \in Reqs : StartSetIsNew(r)
    \/ \E r \in Reqs : StartCookie(r)
    \/ \E r \in Reqs : StartReadInit(r)
    \/ \E r \in Reqs, v \in Vals : SessionSet(r, KeyOf(r), v)

SpecSet == InitSet /\ [][NextSet]_vars

(* ------------------------------ properties ----------------------------- *)
\* an id is clear when the registry holds no Record and the databases no
\* entry for it
Clear(ss, d, sid) == ss[sid] = NoRef /\ DbLen(d, sid) = 0

\* C1: Start on a request without session cookie takes a generated id, makes
\* Provider.Init register a Record for it with the configured expiration,
\* sends exactly one cookie, named Config.Cookie and valued with that id, and
\* returns the Record registered under the id.
C1_StartWithoutCookie ==
    [][\A r \in Reqs :
        (GetCookie(ctx[r]) = 0 /\ last'.op = "Start" /\ Start(r)) =>
            /\ last'.sid \in Generated
            /\ last'.ret # NoRef
            /\ sessions'[last'.sid] = last'.ret
            /\ ctx'[r].held = last'.ret
            /\ heap'[last'.ret].sid = last'.sid
            /\ heap'[last'.ret].limited = (config.Expires # 0)
            /\ heap'[last'.ret].deadline = Deadline(config.Expires, TimeNow)
            /\ Len(last'.writes) = 1
            /\ last'.writes[1].name = Cookie
            /\ last'.writes[1].value = last'.sid]_vars

\* a Start has generated an id, registered its Record and sent the cookie
C1_Witness ==
    /\ last.op = "Start"
    /\ Len(last.writes) = 1
    /\ last.writes[1].value = last.sid
    /\ last.ret # NoRef
    /\ sessions[last.sid] = last.ret

\* C2: a request that got the Record of an id from Start holds the Record
\* the registry holds for that id, and every value Set through the
\* registered Record, by this or an earlier request, is the value Get
\* returns, until the session is destroyed.
C2_WriteThenRead ==
    \A r \in Reqs :
        LET x == ctx[r].held
        IN  (x # NoRef /\ ~heap[x].removed) =>
                /\ sessions[heap[x].sid] = x
                /\ \A k \in Keys :
                      written[heap[x].sid][k] # 0 =>
                          SessionValue(heap, db, x, k) = written[heap[x].sid][k]

\* a Start that presented the cookie of a registered id has returned the
\* Record through which a value was Set before
C2_Witness ==
    /\ last.op = "Start"
    /\ last.writes = <<>>
    /\ last.ret # NoRef
    /\ ~heap[last.ret].isNew
    /\ \E k \in Keys :
          /\ written[last.sid][k] # 0
          /\ heap[last.ret].store[k] = written[last.sid][k]

\* C3: the Record that Start returns for an id that the registry and the
\* databases do not know is new and its store is empty, whether the id was
\* generated or presented by the request's cookie.
C3_UnknownIdIsNew ==
    [][\A r \in Reqs :
        (last'.op \in {"Start", "Handler"} /\ (Start(r) \/ Handler(r))) =>
            (Clear(sessions, db, last'.sid) =>
                /\ heap'[last'.ret].isNew
                /\ StoreLen(heap'[last'.ret].store) = 0)]_vars

\* a Start has created, on a lookup miss, the Record of the id its request
\* presented, and the Record is new and empty
C3_Witness ==
    /\ last.op = "Start"
    /\ last.writes = <<>>
    /\ last.ret # NoRef
    /\ heap[last.ret].isNew
    /\ StoreLen(heap[last.ret].store) = 0

\* C4: any two requests that hold live Records of one id hold the same
\* Record, under every interleaving of Start, Destroy, DestroyByID and
\* DestroyAll.
C4_OneRecordPerId ==
    \A r1, r2 \in Reqs :
        LET x1 == ctx[r1].held
            x2 == ctx[r2].held
        IN  (/\ x1 # NoRef /\ x2 # NoRef
             /\ ~heap[x1].removed /\ ~heap[x2].removed
             /\ heap[x1].sid = heap[x2].sid) => x1 = x2

C6_NilAfterAnyDestroy ==
    [][\A r \in Reqs :
        /\ (last'.op = "Handler" /\ Handler(r)) =>
                (last'.ret # NoRef /\ Get(ctx'[r]) = last'.ret)
        /\ (last'.op = "Get" /\ GetSession(r)) => last'.ret = Get(ctx[r])
        /\ (Get(ctx[r]) = NoRef /\ Get(ctx'[r]) # NoRef) => last'.op = "Handler"
        /\ (last'.op = "Destroy" /\ Destroy(r)) => Get(ctx'[r]) = NoRef]_vars

\* C7: DestroyAll leaves the registry empty, removes every id the registry
\* held and invokes each listener exactly once for each of them and for no
\* other id, also when Starts and Destroys of other requests are in
\* progress; the ids it removed are clear, and the first Record created
\* for a clear id is new and empty.
C7_DestroyAllDrains ==
    [][/\ (last'.op = "DestroyAll" /\ DestroyAll) =>
            /\ \A i \in Ids : sessions'[i] = NoRef
            /\ last'.removed = {i \in Ids : sessions[i] # NoRef}
            /\ \A i \in last'.removed : Clear(sessions', db', i)
            /\ \A i \in Ids : \A n \in DOMAIN destroyListeners :
                  Cardinality({j \in DOMAIN last'.fired :
                                  last'.fired[j] = <<destroyListeners[n], i>>})
                      = IF sessions[i] # NoRef THEN 1 ELSE 0
            /\ Len(last'.fired) =
                  Len(destroyListeners) * Cardinality(last'.removed)
       /\ \A c \in Ids :
            Clear(sessions, db, c) =>
                \/ Clear(sessions', db', c)
                \/ /\ sessions'[c] # NoRef
                   /\ heap'[sessions'[c]].isNew
                   /\ StoreLen(heap'[sessions'[c]].store) = 0]_vars

\* a DestroyAll has drained a registry of two Records, a listener being
\* registered and a Start of another request being in progress
C7_Witness ==
    /\ last.op = "DestroyAll"
    /\ Cardinality(last.removed) = 2
    /\ Len(last.fired) = 2
    /\ \E r \in Reqs : pc[r].at # "idle"

\* C8: UpdateExpiration answers ErrNotFound to a request without session
\* cookie, then without calling the Provider or sending a cookie, and to
\* a request whose cookie names an id that the registry and the databases
\* do not know; in both cases the registry and the Records are unchanged.
C8_UpdateExpirationNotFound ==
    [][\A r \in Reqs :
        (last'.op = "UpdateExpiration" /\ UpdateExpiration(r, last'.arg)) =>
            LET c == GetCookie(ctx[r])
            IN  /\ c = 0 =>
                    /\ last'.err = "ErrNotFound"
                    /\ last'.calls = 0
                    /\ last'.writes = <<>>
                    /\ sessions' = sessions /\ heap' = heap /\ db' = db
                /\ (c # 0 /\ Clear(sessions, db, c)) =>
                    /\ last'.err = "ErrNotFound"
                    /\ sessions' = sessions /\ heap' = heap /\ db' = db]_vars

\* UpdateExpiration has answered ErrNotFound for an id nobody knows, while
\* the registry holds the Record of another id
C8_Witness ==
    /\ last.op = "UpdateExpiration"
    /\ last.err = "ErrNotFound"
    /\ last.sid # 0
    /\ last.calls = 1
    /\ \E i \in Ids : sessions[i] # NoRef

\* C9, as stated: UpdateExpiration sends the cookie exactly when the Provider
\* succeeded or expires is negative.
C9_RewriteOnAnyNegative ==
    [][\A r \in Reqs :
        (/\ GetCookie(ctx[r]) # 0
         /\ last'.op = "UpdateExpiration" /\ UpdateExpiration(r, last'.arg)) =>
            ((last'.writes # <<>>) = (last'.err = "nil" \/ last'.arg < 0))]_vars

\* C9, amended: UpdateExpiration sends the cookie, with the attributes of expires,
\* exactly when the Provider succeeded or expires is -1; it returns the
\* Provider's error as it is.
C9_RewriteOnMinusOne ==
    [][\A r \in Reqs :
        (/\ GetCookie(ctx[r]) # 0
         /\ last'.op = "UpdateExpiration" /\ UpdateExpiration(r, last'.arg)) =>
            LET c == GetCookie(ctx[r])
                e == last'.arg
            IN  /\ (last'.writes # <<>>) = (last'.err = "nil" \/ e = -1)
                /\ last'.writes # <<>> =>
                      last'.writes = <<sessionCookie(c, e, TimeNow)>>
                /\ last'.calls = 1
                /\ \E dbErr \in DbAnswers(c) :
                      last'.err =
                          ProviderUpdateExpiration(Prov, c, e, TimeNow, dbErr).err]_vars

\* UpdateExpiration has returned the Provider's error and yet sent the
\* cookie (expires = -1)
C9_Witness ==
    /\ last.op = "UpdateExpiration"
    /\ last.err # "nil"
    /\ Len(last.writes) = 1
    /\ last.writes[1].value = last.sid

WroteSessionCookie(l) ==
    l.op \in {"Start", "Handler", "UpdateExpiration"} /\ l.writes # <<>>

WrittenWith(l) == IF l.op = "UpdateExpiration" THEN l.arg ELSE config.Expires

\* C11, as stated: a session cookie written with a zero duration carries
\* neither an Expires nor a Max-Age attribute.
C11_ZeroNoAttributes ==
    [][(WroteSessionCookie(last') /\ WrittenWith(last') = 0) =>
          \A n \in 1..Len(last'.writes) :
              last'.writes[n].expires = 0 /\ last'.writes[n].maxAge = 0]_vars

\* C11, amended: a session cookie written with a zero duration is one cookie
\* for the session id that expires at the fixed far instant
\* CookieExpireUnlimited, with the Max-Age that leads from the time of
\* writing to that instant.
C11_ZeroUnlimited ==
    [][(WroteSessionCookie(last') /\ WrittenWith(last') = 0) =>
          last'.writes =
              <<[name |-> Cookie, value |-> last'.sid, path |-> "/",
                 httpOnly |-> TRUE, expires |-> CookieExpireUnlimited,
                 maxAge |-> CookieExpireUnlimited - TimeNow]>>]_vars

\* a Start under Config.Expires = 0 has sent the cookie of a new session
C11_Witness ==
    /\ last.op = "Start"
    /\ config.Expires = 0
    /\ Len(last.writes) = 1
    /\ last.writes[1].value = last.sid
    /\ last.writes[1].expires = CookieExpireUnlimited

RecordOf(h, x) == IF x = NoRef THEN NullRec ELSE h[x]

Registry(ss, h) == [i \in Ids |-> RecordOf(h, ss[i])]

\* the Records that the requests hold, by request
HeldRecords(cx, h) ==
    [r \in Reqs |-> [value |-> RecordOf(h, cx[r].value),
                     held  |-> RecordOf(h, cx[r].held),
                     cookie |-> cx[r].cookie]]

\* C14: DestroyByID (Provider.Destroy) for an id that is not in the registry
\* returns without error and leaves the registry, every Record and store and
\* the database as they are, firing no listener; after any DestroyByID the id
\* is absent, so a second call for the same id removes nothing and leaves the
\* state of the first.
C14_DestroyAbsentNoOp ==
    [][last'.op = "DestroyByID" =>
          /\ last'.err = "nil"
          /\ sessions'[last'.sid] = NoRef
          /\ sessions[last'.sid] = NoRef =>
                /\ Registry(sessions', heap') = Registry(sessions, heap)
                /\ HeldRecords(ctx', heap') = HeldRecords(ctx, heap)
                /\ db' = db
                /\ last'.fired = <<>>
                /\ last'.removed = {}
          /\ (last.op = "DestroyByID" /\ last.sid = last'.sid) =>
                /\ Registry(sessions', heap') = Registry(sessions, heap)
                /\ HeldRecords(ctx', heap') = HeldRecords(ctx, heap)
                /\ db' = db
                /\ last'.removed = {}]_vars

\* DestroyByID was called for an id that the registry did not hold, while
\* another session is registered with a value in its store and a listener is
\* registered
C14_Witness ==
    /\ last.op = "DestroyByID"
    /\ last.removed = {}
    /\ destroyListeners # <<>>
    /\ \E i \in Ids \ {last.sid} :
          sessions[i] # NoRef /\ StoreLen(heap[sessions[i]].store) > 0

C17_StartWithCookieWritesNone ==
    [][\A r \in Reqs :
        (GetCookie(ctx[r]) # 0 /\ last'.op = "Start" /\ Start(r)) =>
            LET c == GetCookie(ctx[r])
            IN  /\ last'.writes = <<>>
                /\ GetCookie(ctx'[r]) = c
                /\ last'.sid = c
                /\ last'.ret # NoRef
                /\ sessions'[c] = last'.ret
                /\ ctx'[r].held = last'.ret
                /\ sessions[c] # NoRef =>
                      heap'[last'.ret] = [heap[sessions[c]] EXCEPT !.isNew = FALSE]
                /\ sessions[c] = NoRef =>
                      heap'[last'.ret] = newSession(db, c, config.Expires, TimeNow)
                /\ \A i \in Ids \ {c} :
                      RecordOf(heap', sessions'[i]) = RecordOf(heap, sessions[i])]_vars

\* a Start presented an id that the registry did not hold: the Record was
\* created by Read and no cookie was sent
C17_Witness ==
    /\ last.op = "Start"
    /\ last.writes = <<>>
    /\ last.ret # NoRef
    /\ heap[last.ret].isNew
    /\ sessions[last.sid] = last.ret

\* C20: Destroy, DestroyByID and UpdateExpiration act on the session named by
\* the request's cookie (by sid for DestroyByID) only: the Record of every
\* other id, with its store and its expiry, and the database entries of every
\* other id are unchanged, no other id is removed and no listener is invoked
\* with another id.
C20_OtherSessionsUntouched ==
    [][/\ \A r \in Reqs :
            /\ (last'.op = "Destroy" /\ Destroy(r)) =>
                    last'.sid = GetCookie(ctx[r])
       /\ last'.op = "UpdateExpiration" =>
            \E r \in Reqs : ctx[r].active /\ GetCookie(ctx[r]) = last'.sid
       /\ last'.op \in {"Destroy", "DestroyByID", "UpdateExpiration"} =>
            \A i \in Ids \ {last'.sid} :
                /\ RecordOf(heap', sessions'[i]) = RecordOf(heap, sessions[i])
                /\ db'[i] = db[i]
                /\ i \notin last'.removed
                /\ \A n \in 1..Len(last'.fired) : last'.fired[n][2] # i]_vars

\* a Destroy removed the session of its request, with a listener registered,
\* while another session with a value in its store is registered
C20_Witness ==
    /\ last.op = "Destroy"
    /\ last.removed = {last.sid}
    /\ last.fired # <<>>
    /\ \E i \in Ids \ {last.sid} :
          sessions[i] # NoRef /\ StoreLen(heap[sessions[i]].store) > 0

Removals == {"Destroy", "DestroyByID", "DestroyAll", "Expire"}

\* C16: every operation that removes Records (Destroy, DestroyByID,
\* DestroyAll, the expiration sweep) has, when it returns, invoked for each
\* removed id every registered listener once, the invocations for one id
\* following each other in the order of registration; no invocation is left
\* to a later step, and an operation that removes nothing invokes none.
C16_ListenersInOrder ==
    [][LET L == Len(destroyListeners)
           f == last'.fired
       IN  /\ last'.op \notin Removals => f = <<>>
           /\ last'.op \in Removals =>
                /\ last'.removed = {i \in Ids : sessions[i] # NoRef /\ sessions'[i] = NoRef}
                   \/ last' = last
                /\ Len(f) = L * Cardinality(last'.removed)
                /\ \A j \in 1..Len(f) :
                      /\ f[j][1] = destroyListeners[((j - 1) % L) + 1]
                      /\ f[j][2] \in last'.removed
                      /\ f[j][2] = f[j - ((j - 1) % L)][2]
                /\ \A i \in last'.removed : \A n \in 1..L :
                      Cardinality({j \in 1..Len(f) : f[j] = <<destroyListeners[n], i>>}) = 1]_vars

\* DestroyAll has removed two Records with two listeners registered
C16_Witness ==
    /\ Len(destroyListeners) = 2
    /\ last.op = "DestroyAll"
    /\ Cardinality(last.removed) = 2
    /\ Len(last.fired) = 4

C13_NoLostUpdate ==
    \A r1, r2 \in Reqs :
        LET x1 == ctx[r1].held
            x2 == ctx[r2].held
        IN  (/\ KeyOf(r1) # KeyOf(r2)
             /\ x1 # NoRef /\ x2 # NoRef
             /\ heap[x1].sid = heap[x2].sid
             /\ heap[x1].store[KeyOf(r1)] # 0
             /\ heap[x2].store[KeyOf(r2)] # 0) =>
                LET x == sessions[heap[x1].sid]
                IN  /\ x # NoRef
                    /\ heap[x].store[KeyOf(r1)] = heap[x1].store[KeyOf(r1)]
                    /\ heap[x].store[KeyOf(r2)] = heap[x2].store[KeyOf(r2)]
                    /\ StoreLen(heap[x].store) = 2

====
